---- MODULE Spec2Model ----
(***************************************************************************)
(* A model of the web crawler of main.go: the Queue (frontier), the        *)
(* CrawledSet (visited set), robotsTxtFetcher / isAllowed, fetcher with    *)
(* its retry loop, parser (link extraction and the write to result.txt),   *)
(* and main's crawl loop with its goroutines.                              *)
(*                                                                         *)
(* URLs, hrefs and robots.txt lines are TLA+ strings; the string helpers   *)
(* below are the functions of Go's strings package that main.go calls.     *)
(***************************************************************************)
EXTENDS Integers, Sequences, FiniteSets, TLC

(***************************************************************************)
(* Bounds of the model.                                                    *)
(***************************************************************************)
\* The visited ceiling of the crawl loop.  main.go:245 uses 500; the model
\* explores the same loop with a small ceiling.
Ceiling == 3
\* The stats sampler ticks at most this many times in one run.
MaxTicks == 1
\* The free Queue driver (SpecQueue) makes at most this many enqueue calls.
MaxCalls == 4

(***************************************************************************)
(* strings package                                                         *)
(***************************************************************************)
HasPrefix(s, p) == Len(p) <= Len(s) /\ SubSeq(s, 1, Len(p)) = p

HasSuffix(s, p) == Len(p) <= Len(s) /\ SubSeq(s, Len(s) - Len(p) + 1, Len(s)) = p

TrimSuffix(s, p) == IF HasSuffix(s, p) THEN SubSeq(s, 1, Len(s) - Len(p)) ELSE s

StrContains(s, sub) ==
    \E i \in 1..(Len(s) - Len(sub) + 1) : SubSeq(s, i, i + Len(sub) - 1) = sub

IsSpace(c) == c \in {" ", "\t"}

\* The index of the first character at or after i that is (sp = TRUE) or is
\* not (sp = FALSE) white space; Len(s) + 1 when there is none.
RECURSIVE Scan(_, _, _)
Scan(s, i, sp) ==
    IF i > Len(s) THEN i
    ELSE IF IsSpace(SubSeq(s, i, i)) = sp THEN i
    ELSE Scan(s, i + 1, sp)

\* strings.Fields: the maximal runs of non-space characters, in order.
RECURSIVE FieldsFrom(_, _)
FieldsFrom(s, i) ==
    LET b == Scan(s, i, FALSE)
        e == Scan(s, b, TRUE)
    IN  IF b > Len(s) THEN <<>>
        ELSE <<SubSeq(s, b, e - 1)>> \o FieldsFrom(s, e)

Fields(s) == FieldsFrom(s, 1)

(***************************************************************************)
(* hashUrl: 64-bit FNV-1a over the bytes of the URL.  A 64-bit value is    *)
(* eight bytes, least significant first, so that no intermediate result    *)
(* leaves the integers TLC computes with.                                  *)
(***************************************************************************)
\* The printable ASCII characters in code order: 32 (space) to 95, and 97
\* to 126 (code 96 cannot be written in a TLA+ string; no URL here has it).
AsciiLow ==
    " !" \o "\"" \o "#$%&'()*+,-./0123456789:;<=>?@ABCDEFGHIJKLMNOPQRSTUVWXYZ["
    \o "\\" \o "]^_"

AsciiHigh == "abcdefghijklmnopqrstuvwxyz{|}~"

IndexIn(tbl, c) == CHOOSE i \in 1..Len(tbl) : SubSeq(tbl, i, i) = c

Ord(c) ==
    IF StrContains(AsciiLow, c) THEN 31 + IndexIn(AsciiLow, c)
    ELSE 96 + IndexIn(AsciiHigh, c)

\* 0xcbf29ce484222325, least significant byte first.
FnvOffset == <<37, 35, 34, 132, 228, 156, 242, 203>>

RECURSIVE XorBits(_, _, _)
XorBits(a, b, n) ==
    IF n = 0 THEN 0
    ELSE (((a % 2) + (b % 2)) % 2) + 2 * XorBits(a \div 2, b \div 2, n - 1)

\* h * 0x100000001b3 mod 2^64: the prime is 2^40 + 435, so byte j of the
\* product is 435 * h[j] plus h[j - 5] plus the carry of the bytes below.
RECURSIVE MulCarry(_, _, _)
MulCarry(h, j, carry) ==
    IF j > 8 THEN <<>>
    ELSE LET col == 435 * h[j] + (IF j > 5 THEN h[j - 5] ELSE 0) + carry
         IN  <<(col % 256)>> \o MulCarry(h, j + 1, col \div 256)

FnvStep(h, byte) == MulCarry([h EXCEPT ![1] = XorBits(h[1], byte, 8)], 1, 0)

RECURSIVE FnvFrom(_, _, _)
FnvFrom(s, i, h) ==
    IF i <= Len(s) /\ Len(h) = 8
    THEN FnvFrom(s, i + 1, FnvStep(h, Ord(SubSeq(s, i, i))))
    ELSE h

Fnv64a(s) == FnvFrom(s, 1, FnvOffset)

(***************************************************************************)
(* The crawl's inputs: seed hosts, robots.txt bodies, pages.               *)
(***************************************************************************)
\* The seed and domain prefix the program is built with, main.go:18.
BuiltHost == "https://www.sjsu.edu/"

\* The seed of a build for the end-to-end run on the domain example.test.
TestHost == "https://example.test/"

Hosts == {BuiltHost, TestHost}

\* Bodies a robots.txt response can have, as their lines.
RobotsBodies ==
    { <<"User-agent: *", "Disallow: /private">>,
      <<"Disallow:", "Allow: /", "Disallow:/tmp">> }

\* A parsed document: the href of each a[href] in document order, and the
\* text of its title.
Doc(links, title) == [links |-> links, title |-> title]

\* The documents a server of domain h can answer with.
Docs(h) ==
    { Doc(<<"/a", "#top", "mailto:x@y.com", "http://other.test/z">>, "Home"),
      Doc(<<"/a", "/a", h \o "b">>, "Twice"),
      Doc(<<"javascript:void(0)", "/private/x", "c.html">>, "Mixed"),
      Doc(<<"/%zz", "/">>, "Odd"),
      Doc(<<>>, "") }

\* The URLs the free Queue driver passes to enqueue.
CallUrls == {"u1", "u2", "u3"}

\* Every string the crawl can pass to hashUrl: the hosts, the hrefs, and the
\* hrefs made absolute.  Their hashes are computed once.
AllHrefs == UNION { { d.links[i] : i \in DOMAIN d.links } : d \in UNION { Docs(h) : h \in Hosts } }

KnownUrls ==
    Hosts \cup AllHrefs
          \cup { TrimSuffix(h, "/") \o l : h \in Hosts, l \in AllHrefs }

FnvMemo == { <<u, Fnv64a(u)>> : u \in KnownUrls }

\* hashUrl, main.go:78-82.
hashUrl(u) ==
    IF u \in KnownUrls THEN (CHOOSE p \in FnvMemo : p[1] = u)[2] ELSE Fnv64a(u)

(***************************************************************************)
(* State                                                                   *)
(***************************************************************************)
VARIABLES
    host,           \* main.go:18
    disabledLinks,  \* main.go:20
    queue,          \* main's Queue: [totalQueued, number, elements]
    crawled,        \* main's CrawledSet: [data, number]
    mainPc,         \* where main is
    url,            \* main's loop variable url
    content,        \* main's content: <<>> is nil, <<d>> a document
    fetchChan,      \* the number of the handoff channel main made last
    fetchTasks,     \* the fetcher goroutines that have not returned
    parsers,        \* the running calls of parser
    wg,             \* the counter of the WaitGroup
    resultFile,     \* the records appended to result.txt
    samplerPc,      \* the stats goroutine: "off", "on", "stopped"
    samples,        \* the lines appended to each series of CrawlerStats
    report,         \* <<>>, or the three numbers of the final report
    exited,         \* TRUE once log.Fatal has ended the process
    fetchStarts,    \* history: how many fetches of each URL main has started
    enqLog,         \* history of the free Queue driver: URLs passed to enqueue
    deqLog          \* history of the free Queue driver: URLs dequeue returned

vars ==
    << host, disabledLinks, queue, crawled, mainPc, url, content, fetchChan,
       fetchTasks, parsers, wg, resultFile, samplerPc, samples, report,
       exited, fetchStarts, enqLog, deqLog >>

(***************************************************************************)
(* Queue                                                                   *)
(***************************************************************************)
EmptyQueue == [totalQueued |-> 0, number |-> 0, elements |-> <<>>]

\* enqueue putting the URL at the head of the slice.
enqueueAtHead(q, u) ==
    [totalQueued |-> q.totalQueued + 1,
     number      |-> q.number + 1,
     elements    |-> <<u>> \o q.elements]

enqueue(q, u) ==
    [totalQueued |-> q.totalQueued + 1,
     number      |-> q.number + 1,
     elements    |-> Append(q.elements, u)]

\* dequeue without its q.number--.
dequeueKeepingNumber(q) == [q EXCEPT !.elements = Tail(q.elements)]

\* dequeue returns elements[0] ...
dequeueUrl(q) == Head(q.elements)

\* ... and leaves the rest (totalQueued is not touched).
dequeue(q) ==
    [q EXCEPT !.elements = Tail(q.elements), !.number = q.number - 1]

size(q) == q.number

(***************************************************************************)
(* CrawledSet                                                              *)
(***************************************************************************)
EmptyCrawledSet == [data |-> {}, number |-> 0]

\* add counting a URL only the first time its fingerprint is stored.
addCountingDistinct(c, u) ==
    [data   |-> c.data \cup {hashUrl(u)},
     number |-> IF hashUrl(u) \in c.data THEN c.number ELSE c.number + 1]

\* add storing into a fresh map.
addIntoFreshMap(c, u) == [data |-> {hashUrl(u)}, number |-> c.number + 1]

add(c, u) == [data |-> c.data \cup {hashUrl(u)}, number |-> c.number + 1]

contains(c, u) == hashUrl(u) \in c.data

crawledSize(c) == c.number

(***************************************************************************)
(* robots.txt                                                              *)
(***************************************************************************)
\* The loop of robotsTxtFetcher over the lines of the body.
RECURSIVE ScanRobots(_, _)
ScanRobots(lines, acc) ==
    IF lines = <<>> THEN acc
    ELSE LET line   == Head(lines)
             fields == Fields(line)
         IN  ScanRobots(Tail(lines),
                        IF StrContains(line, "Disallow:") /\ Len(fields) >= 2
                        THEN Append(acc, fields[2])
                        ELSE acc)

isAllowedIn(list, u) ==
    \A i \in 1..Len(list) : ~StrContains(u, list[i])

isAllowed(u) == isAllowedIn(disabledLinks, u)

(***************************************************************************)
(* parser: what it does with one href                                      *)
(***************************************************************************)
\* Normalize joining host and a rooted href without trimming host's slash.
NormalizeUntrimmed(href) ==
    IF HasPrefix(href, "#") \/ HasPrefix(href, "javascript:")
       \/ HasPrefix(href, "mailto:")
    THEN <<>>
    ELSE IF HasPrefix(href, "/") THEN <<host \o href>>
    ELSE IF ~HasPrefix(href, "http") THEN <<>>
    ELSE <<href>>

\* Lines 193-201: <<>> when the href is dropped, else the absolute URL.
Normalize(href) ==
    IF HasPrefix(href, "#") \/ HasPrefix(href, "javascript:")
       \/ HasPrefix(href, "mailto:")
    THEN <<>>
    ELSE IF HasPrefix(href, "/") THEN <<TrimSuffix(host, "/") \o href>>
    ELSE IF ~HasPrefix(href, "http") THEN <<>>
    ELSE <<href>>

\* The condition of line 203 without its domain test, and without its
\* robots test.
AdmittedAnyDomain(u) == isAllowed(u) /\ ~contains(crawled, u)

AdmittedIgnoringRobots(u) == HasPrefix(u, host) /\ ~contains(crawled, u)

\* Line 203: the condition under which the URL is enqueued.
Admitted(u) == HasPrefix(u, host) /\ isAllowed(u) /\ ~contains(crawled, u)

(***************************************************************************)
(* fetcher: request construction                                           *)
(***************************************************************************)
Retries == 5

IsHex(c) == StrContains("0123456789abcdefABCDEF", c) /\ Len(c) = 1

\* http.NewRequest fails on a URL it cannot parse; of the URLs parser can
\* enqueue these are the ones with a "%" that two hex digits do not follow.
NewRequestFails(u) ==
    \E i \in 1..Len(u) :
        /\ SubSeq(u, i, i) = "%"
        /\ ~(i + 2 <= Len(u) /\ IsHex(SubSeq(u, i + 1, i + 1))
                             /\ IsHex(SubSeq(u, i + 2, i + 2)))

\* A call of fetcher: its url and channel, the loop variable i, the requests
\* client.Do has been given, whether a response had status 200, where the
\* call is ("run": in the loop; "send": at `c <- doc' or `c <- nil';
\* "fatal": ended by log.Fatal), and the document it has parsed.
FetchTask(u, c) ==
    [url |-> u, chan |-> c, i |-> 0, reqs |-> 0, gotOK |-> FALSE,
     status |-> "run", doc |-> <<>>]

\* A call of parser: its document and currUrl, whether main runs it itself
\* (the seed) or a goroutine does, the anchor Each is at, and where the call
\* is ("links": in Each; "enqueue": at queue.enqueue(href); "return": past
\* writeToFile).
ParserTask(id, d, u, sync) ==
    [id |-> id, doc |-> d, url |-> u, sync |-> sync, idx |-> 1,
     phase |-> "links", href |-> ""]

\* The count of k raised by one in the counting function f.
Bump(f, k) ==
    [x \in DOMAIN f \cup {k} |->
        IF x \notin DOMAIN f THEN 1 ELSE IF x = k THEN f[x] + 1 ELSE f[x]]

(***************************************************************************)
(* main, up to the crawl loop                                              *)
(***************************************************************************)
InitWith(h) ==
    /\ host = h
    /\ disabledLinks = <<>>
    /\ queue = EmptyQueue
    /\ crawled = EmptyCrawledSet
    /\ mainPc = "robots"
    /\ url = ""
    /\ content = <<>>
    /\ fetchChan = 0
    /\ fetchTasks = {}
    /\ parsers = {}
    /\ wg = 0
    /\ resultFile = <<>>
    /\ samplerPc = "off"
    /\ samples = 0
    /\ report = <<>>
    /\ exited = FALSE
    /\ fetchStarts = <<>>
    /\ enqLog = <<>>
    /\ deqLog = <<>>

Init == InitWith(BuiltHost)

history == << enqLog, deqLog >>

\* robotsTxtFetcher(), main.go:219: the request fails, or the Disallow lines of
\* the body are appended to disabledLinks.
RobotsTxtFetcher ==
    /\ mainPc = "robots" /\ ~exited
    /\ \/ disabledLinks' = disabledLinks
       \/ \E body \in RobotsBodies :
              disabledLinks' = ScanRobots(body, disabledLinks)
    /\ mainPc' = "seedAdd"
    /\ UNCHANGED << host, queue, crawled, url, content, fetchChan, fetchTasks,
                    parsers, wg, resultFile, samplerPc, samples, report,
                    exited, fetchStarts, history >>

\* crawled.add(host), main.go:222.
SeedAdd ==
    /\ mainPc = "seedAdd" /\ ~exited
    /\ crawled' = add(crawled, host)
    /\ mainPc' = "seedGo"
    /\ UNCHANGED << host, disabledLinks, queue, url, content, fetchChan,
                    fetchTasks, parsers, wg, resultFile, samplerPc, samples,
                    report, exited, fetchStarts, history >>

\* c := make(chan ...); go fetcher(host, c), main.go:223-224.
SeedGo ==
    /\ mainPc = "seedGo" /\ ~exited
    /\ fetchTasks' = fetchTasks \cup {FetchTask(host, fetchChan)}
    /\ fetchStarts' = Bump(fetchStarts, host)
    /\ mainPc' = "seedRecv"
    /\ UNCHANGED << host, disabledLinks, queue, crawled, url, content,
                    fetchChan, parsers, wg, resultFile, samplerPc, samples,
                    report, exited, history >>

(***************************************************************************)
(* fetcher                                                                 *)
(***************************************************************************)
\* A failed pass that leaves the loop at once, as a `return' inside it would.
AttemptFailedOnce(f) ==
    [f EXCEPT !.i = f.i + 1,
              !.reqs = IF NewRequestFails(f.url) THEN f.reqs ELSE f.reqs + 1,
              !.status = "send"]

\* One pass of the loop of main.go:157-184 that ends in `continue' or in the
\* else branch: the request cannot be built (no request is made), the
\* request fails in transport, or the status is not 200.
AttemptFailed(f) ==
    [f EXCEPT !.i = f.i + 1,
              !.reqs = IF NewRequestFails(f.url) THEN f.reqs ELSE f.reqs + 1,
              !.status = IF f.i + 1 < Retries THEN "run" ELSE "send"]

\* The pass that gets status 200 and parses the body, without `return': the
\* loop goes on.
AttemptOkNoReturn(f, d) ==
    [f EXCEPT !.i = f.i + 1, !.reqs = f.reqs + 1, !.gotOK = TRUE,
              !.status = IF f.i + 1 < Retries THEN "run" ELSE "send",
              !.doc = <<d>>]

\* The pass that gets status 200 and a body goquery parses: the task is at
\* `c <- doc', main.go:178.
AttemptOk(f, d) ==
    [f EXCEPT !.reqs = f.reqs + 1, !.gotOK = TRUE, !.status = "send",
              !.doc = <<d>>]

\* The pass that gets status 200 and a body goquery cannot read: log.Fatal,
\* main.go:176.
AttemptFatal(f) ==
    [f EXCEPT !.reqs = f.reqs + 1, !.gotOK = TRUE, !.status = "fatal"]

FetchFail(f) ==
    /\ f.status = "run" /\ ~exited
    /\ fetchTasks' = (fetchTasks \ {f}) \cup {AttemptFailed(f)}
    /\ UNCHANGED << host, disabledLinks, queue, crawled, mainPc, url, content,
                    fetchChan, parsers, wg, resultFile, samplerPc, samples,
                    report, exited, fetchStarts, history >>

FetchOk(f) ==
    /\ f.status = "run" /\ ~exited
    /\ ~NewRequestFails(f.url)
    /\ \E d \in Docs(host) :
           fetchTasks' = (fetchTasks \ {f}) \cup {AttemptOk(f, d)}
    /\ UNCHANGED << host, disabledLinks, queue, crawled, mainPc, url, content,
                    fetchChan, parsers, wg, resultFile, samplerPc, samples,
                    report, exited, fetchStarts, history >>

FetchFatal(f) ==
    /\ f.status = "run" /\ ~exited
    /\ ~NewRequestFails(f.url)
    /\ fetchTasks' = (fetchTasks \ {f}) \cup {AttemptFatal(f)}
    /\ exited' = TRUE
    /\ UNCHANGED << host, disabledLinks, queue, crawled, mainPc, url, content,
                    fetchChan, parsers, wg, resultFile, samplerPc, samples,
                    report, fetchStarts, history >>

\* main leaving the loop when the fetch of a dequeued URL gave nil.
AfterRecvStoppingOnNil(pc, c) ==
    IF pc = "seedRecv"
    THEN (IF c # <<>> THEN "seedParse" ELSE "startStats")
    ELSE (IF c # <<>> THEN "dispatch" ELSE "wait")

\* Where main goes with what it received: main.go:226 and main.go:251.
AfterRecv(pc, c) ==
    IF pc = "seedRecv"
    THEN (IF c # <<>> THEN "seedParse" ELSE "startStats")
    ELSE (IF c # <<>> THEN "dispatch" ELSE "loop")

\* The seed's document is parsed by main itself, main.go:227.
SeedParser(pc, c) ==
    IF pc = "seedRecv" /\ c # <<>>
    THEN {ParserTask(0, c[1], host, TRUE)}
    ELSE {}

\* The send of fetcher (`c <- doc', `c <- nil') meeting the receive of main
\* (`content := <-c', `content := <-fetchChan') on the unbuffered channel;
\* fetcher returns.  main's content and url are kept only while main still
\* reads them: the seed's document goes to parser in this step, and with nil
\* the body of the loop ends, where its url and content go out of scope.
Deliver(f) ==
    /\ f.status = "send" /\ ~exited
    /\ mainPc \in {"seedRecv", "recv"}
    /\ f.chan = fetchChan
    /\ content' = IF mainPc = "recv" /\ f.doc # <<>> THEN f.doc ELSE <<>>
    /\ url' = IF mainPc = "recv" /\ f.doc # <<>> THEN url ELSE ""
    /\ fetchTasks' = fetchTasks \ {f}
    /\ mainPc' = AfterRecv(mainPc, f.doc)
    /\ parsers' = parsers \cup SeedParser(mainPc, f.doc)
    /\ UNCHANGED << host, disabledLinks, queue, crawled, fetchChan, wg,
                    resultFile, samplerPc, samples, report, exited,
                    fetchStarts, history >>

(***************************************************************************)
(* parser                                                                  *)
(***************************************************************************)
\* The callback of Each for the next anchor, up to the condition of
\* main.go:203: the href is dropped, or the task is about to enqueue it.
CheckedHref(t) ==
    LET n == Normalize(t.doc.links[t.idx])
    IN  IF n # <<>> /\ Admitted(n[1])
        THEN [t EXCEPT !.phase = "enqueue", !.href = n[1]]
        ELSE [t EXCEPT !.idx = t.idx + 1]

ParserCheck(t) ==
    /\ t.phase = "links" /\ t.idx <= Len(t.doc.links) /\ ~exited
    /\ parsers' = (parsers \ {t}) \cup {CheckedHref(t)}
    /\ UNCHANGED << host, disabledLinks, queue, crawled, mainPc, url, content,
                    fetchChan, fetchTasks, wg, resultFile, samplerPc, samples,
                    report, exited, fetchStarts, history >>

\* queue.enqueue(href), main.go:204.
ParserEnqueue(t) ==
    /\ t.phase = "enqueue" /\ ~exited
    /\ queue' = enqueue(queue, t.href)
    /\ parsers' = (parsers \ {t})
                  \cup {[t EXCEPT !.phase = "links", !.idx = t.idx + 1,
                                  !.href = ""]}
    /\ UNCHANGED << host, disabledLinks, crawled, mainPc, url, content,
                    fetchChan, fetchTasks, wg, resultFile, samplerPc, samples,
                    report, exited, fetchStarts, history >>

\* writeToFile keyed to the link parser saw last instead of currUrl.
ParserWriteLastLink(t) ==
    /\ t.phase = "links" /\ t.idx > Len(t.doc.links) /\ ~exited
    /\ \/ resultFile' = Append(resultFile,
                               [title |-> t.doc.title,
                                url   |-> IF t.doc.links = <<>> THEN t.url
                                          ELSE t.doc.links[Len(t.doc.links)]])
       \/ resultFile' = resultFile
    /\ parsers' = (parsers \ {t}) \cup {[t EXCEPT !.phase = "return"]}
    /\ UNCHANGED << host, disabledLinks, queue, crawled, mainPc, url, content,
                    fetchChan, fetchTasks, wg, samplerPc, samples, report,
                    exited, fetchStarts, history >>

\* writeToFile(title, currUrl), main.go:209-211: the record is appended, or
\* the file cannot be opened or written and the error is only logged.
ParserWrite(t) ==
    /\ t.phase = "links" /\ t.idx > Len(t.doc.links) /\ ~exited
    /\ \/ resultFile' = Append(resultFile, [title |-> t.doc.title, url |-> t.url])
       \/ resultFile' = resultFile
    /\ parsers' = (parsers \ {t}) \cup {[t EXCEPT !.phase = "return"]}
    /\ UNCHANGED << host, disabledLinks, queue, crawled, mainPc, url, content,
                    fetchChan, fetchTasks, wg, samplerPc, samples, report,
                    exited, fetchStarts, history >>

\* parser returns: to main for the seed (main.go:227), to the goroutine of
\* main.go:253-256 otherwise, whose deferred wg.Done() runs.
ParserReturn(t) ==
    /\ t.phase = "return" /\ ~exited
    /\ parsers' = parsers \ {t}
    /\ IF t.sync
       THEN mainPc' = "startStats" /\ wg' = wg
       ELSE mainPc' = mainPc /\ wg' = wg - 1
    /\ UNCHANGED << host, disabledLinks, queue, crawled, url, content,
                    fetchChan, fetchTasks, resultFile, samplerPc, samples,
                    report, exited, fetchStarts, history >>

(***************************************************************************)
(* The stats goroutine                                                     *)
(***************************************************************************)
\* main.go:230-243: the ticker and the goroutine that samples on each tick.
StartStats ==
    /\ mainPc = "startStats" /\ ~exited
    /\ samplerPc' = "on"
    /\ mainPc' = "loop"
    /\ UNCHANGED << host, disabledLinks, queue, crawled, url, content,
                    fetchChan, fetchTasks, parsers, wg, resultFile, samples,
                    report, exited, fetchStarts, history >>

\* case t := <-ticker.C: crawlerStats.update appends one line to each series.
StatsTick ==
    /\ samplerPc = "on" /\ ~exited
    /\ samples < MaxTicks
    /\ samples' = samples + 1
    /\ UNCHANGED << host, disabledLinks, queue, crawled, mainPc, url, content,
                    fetchChan, fetchTasks, parsers, wg, resultFile, samplerPc,
                    report, exited, fetchStarts, history >>

(***************************************************************************)
(* main: the crawl loop and the end of the crawl                           *)
(***************************************************************************)
\* The loop's condition letting the count reach the ceiling before it stops.
LoopConditionInclusive == size(queue) > 0 /\ crawledSize(crawled) <= Ceiling

\* The loop's condition without its test of the queue.
LoopConditionCeilingOnly == crawledSize(crawled) < Ceiling

\* The condition of the loop, main.go:245.
LoopCondition == size(queue) > 0 /\ crawledSize(crawled) < Ceiling

LoopCheck ==
    /\ mainPc = "loop" /\ ~exited
    /\ mainPc' = IF LoopCondition THEN "dequeue" ELSE "wait"
    /\ UNCHANGED << host, disabledLinks, queue, crawled, url, content,
                    fetchChan, fetchTasks, parsers, wg, resultFile, samplerPc,
                    samples, report, exited, fetchStarts, history >>

\* url := queue.dequeue(), main.go:246.
LoopDequeue ==
    /\ mainPc = "dequeue" /\ ~exited
    /\ queue.elements # <<>>
    /\ url' = dequeueUrl(queue)
    /\ queue' = dequeue(queue)
    /\ mainPc' = "add"
    /\ UNCHANGED << host, disabledLinks, crawled, content, fetchChan,
                    fetchTasks, parsers, wg, resultFile, samplerPc, samples,
                    report, exited, fetchStarts, history >>

\* main going from dequeue to the fetch without crawled.add(url).
LoopAddSkipped ==
    /\ mainPc = "add" /\ ~exited
    /\ mainPc' = "go"
    /\ UNCHANGED << host, disabledLinks, queue, crawled, url, content,
                    fetchChan, fetchTasks, parsers, wg, resultFile, samplerPc,
                    samples, report, exited, fetchStarts, history >>

\* crawled.add(url), main.go:247.
LoopAdd ==
    /\ mainPc = "add" /\ ~exited
    /\ crawled' = add(crawled, url)
    /\ mainPc' = "go"
    /\ UNCHANGED << host, disabledLinks, queue, url, content, fetchChan,
                    fetchTasks, parsers, wg, resultFile, samplerPc, samples,
                    report, exited, fetchStarts, history >>

\* main starting the fetch and going back to the top of the loop without
\* receiving its result.
LoopGoNoReceive ==
    /\ mainPc = "go" /\ ~exited
    /\ fetchChan' = fetchChan + 1
    /\ fetchTasks' = fetchTasks \cup {FetchTask(url, fetchChan + 1)}
    /\ fetchStarts' = Bump(fetchStarts, url)
    /\ mainPc' = "loop"
    /\ UNCHANGED << host, disabledLinks, queue, crawled, url, content, parsers,
                    wg, resultFile, samplerPc, samples, report, exited,
                    history >>

\* fetchChan := make(chan ...); go fetcher(url, fetchChan), main.go:248-249.
LoopGo ==
    /\ mainPc = "go" /\ ~exited
    /\ fetchChan' = fetchChan + 1
    /\ fetchTasks' = fetchTasks \cup {FetchTask(url, fetchChan + 1)}
    /\ fetchStarts' = Bump(fetchStarts, url)
    /\ mainPc' = "recv"
    /\ UNCHANGED << host, disabledLinks, queue, crawled, url, content, parsers,
                    wg, resultFile, samplerPc, samples, report, exited,
                    history >>

\* wg.Add(1); go func(doc, url) { defer wg.Done(); parser(...) }, main.go:252-256;
\* the body of the loop ends and its url and content go out of scope.
LoopDispatch ==
    /\ mainPc = "dispatch" /\ ~exited
    /\ wg' = wg + 1
    /\ parsers' = parsers \cup {ParserTask(fetchChan, content[1], url, FALSE)}
    /\ mainPc' = "loop"
    /\ url' = "" /\ content' = <<>>
    /\ UNCHANGED << host, disabledLinks, queue, crawled, fetchChan,
                    fetchTasks, resultFile, samplerPc, samples, report,
                    exited, fetchStarts, history >>

\* main going on from main.go:260 without waiting for the counter to be zero.
WaitParsersNoJoin ==
    /\ mainPc = "wait" /\ ~exited
    /\ mainPc' = "stop"
    /\ UNCHANGED << host, disabledLinks, queue, crawled, url, content,
                    fetchChan, fetchTasks, parsers, wg, resultFile, samplerPc,
                    samples, report, exited, fetchStarts, history >>

\* wg.Wait(), main.go:260.
WaitParsers ==
    /\ mainPc = "wait" /\ ~exited
    /\ wg = 0
    /\ mainPc' = "stop"
    /\ UNCHANGED << host, disabledLinks, queue, crawled, url, content,
                    fetchChan, fetchTasks, parsers, wg, resultFile, samplerPc,
                    samples, report, exited, fetchStarts, history >>

\* ticker.Stop(); done <- true, main.go:262-263, meeting `case <-done' of the
\* stats goroutine, which returns.
StopStats ==
    /\ mainPc = "stop" /\ ~exited
    /\ samplerPc = "on"
    /\ samplerPc' = "stopped"
    /\ mainPc' = "report"
    /\ UNCHANGED << host, disabledLinks, queue, crawled, url, content,
                    fetchChan, fetchTasks, parsers, wg, resultFile, samples,
                    report, exited, fetchStarts, history >>

\* The final report, main.go:265-269; main returns.
FinalReport ==
    /\ mainPc = "report" /\ ~exited
    /\ report' = << [totalQueued |-> queue.totalQueued,
                     queueSize   |-> size(queue),
                     crawledSize |-> crawledSize(crawled)] >>
    /\ mainPc' = "done"
    /\ UNCHANGED << host, disabledLinks, queue, crawled, url, content,
                    fetchChan, fetchTasks, parsers, wg, resultFile, samplerPc,
                    samples, exited, fetchStarts, history >>

Next ==
    \/ RobotsTxtFetcher
    \/ SeedAdd
    \/ SeedGo
    \/ \E f \in fetchTasks : FetchFail(f)
    \/ \E f \in fetchTasks : FetchOk(f)
    \/ \E f \in fetchTasks : FetchFatal(f)
    \/ \E f \in fetchTasks : Deliver(f)
    \/ \E t \in parsers : ParserCheck(t)
    \/ \E t \in parsers : ParserEnqueue(t)
    \/ \E t \in parsers : ParserWrite(t)
    \/ \E t \in parsers : ParserReturn(t)
    \/ StartStats
    \/ StatsTick
    \/ LoopCheck
    \/ LoopDequeue
    \/ LoopAdd
    \/ LoopGo
    \/ LoopDispatch
    \/ WaitParsers
    \/ StopStats
    \/ FinalReport

Spec == Init /\ [][Next]_vars

(***************************************************************************)
(* The scheduling of the goroutines: one that can take a step takes one.   *)
(***************************************************************************)
FairSpec == Spec /\ WF_vars(Next)

(***************************************************************************)
(* The same program built with the seed of the end-to-end run.             *)
(***************************************************************************)
InitE2E == InitWith(TestHost)

SpecE2E == InitE2E /\ [][Next]_vars

(***************************************************************************)
(* A free driver of the Queue: any sequence of enqueue and dequeue calls,  *)
(* dequeue only after size() > 0, with the URLs passed and returned.       *)
(***************************************************************************)
crawlState ==
    << host, disabledLinks, crawled, mainPc, url, content, fetchChan,
       fetchTasks, parsers, wg, resultFile, samplerPc, samples, report,
       exited, fetchStarts >>

CallEnqueue(u) ==
    /\ Len(enqLog) < MaxCalls
    /\ queue' = enqueue(queue, u)
    /\ enqLog' = Append(enqLog, u)
    /\ UNCHANGED << crawlState, deqLog >>

CallDequeue ==
    /\ size(queue) > 0
    /\ queue' = dequeue(queue)
    /\ deqLog' = Append(deqLog, dequeueUrl(queue))
    /\ UNCHANGED << crawlState, enqLog >>

NextQueue ==
    \/ \E u \in CallUrls : CallEnqueue(u)
    \/ CallDequeue

SpecQueue == Init /\ [][NextQueue]_vars

(***************************************************************************)
(* Properties                                                              *)
(***************************************************************************)
IsPrefixOf(a, b) == Len(a) <= Len(b) /\ SubSeq(b, 1, Len(a)) = a

Live(f) == f.status \in {"run", "send"}

\* C1: during one crawl main starts at most one fetch of any URL, the seed
\* included, whatever the pages link to and however the parser goroutines
\* interleave with the loop.
C1_NoDoubleCrawl == \A u \in DOMAIN fetchStarts : fetchStarts[u] <= 1

\* C2: under any sequence of enqueue and dequeue calls (dequeue on a
\* non-empty queue), the URLs dequeue has returned are, in order, a prefix of
\* the URLs passed to enqueue, and no step lowers totalQueued.
C2_FifoAndMonotoneTotal ==
    /\ [](IsPrefixOf(deqLog, enqLog))
    /\ [][queue'.totalQueued >= queue.totalQueued]_vars

C2_Witness ==
    /\ Len(enqLog) >= 3 /\ Len(deqLog) >= 2
    /\ deqLog[1] # deqLog[2]
    /\ queue.elements # <<>>

\* C3: contains(u) is true right after add(u) (main is then about to start
\* the fetch of u), and whatever the set contains it contains in every later
\* state: no step removes a fingerprint.
C3_VisitedMonotonic ==
    /\ []((mainPc = "seedGo" => contains(crawled, host))
          /\ (mainPc = "go" => contains(crawled, url)))
    /\ [][/\ crawled.data \subseteq crawled'.data
          /\ \A u \in DOMAIN fetchStarts \cup {host, url} :
                 contains(crawled, u) => contains(crawled', u)]_vars

C3_Witness ==
    /\ mainPc = "go"
    /\ contains(crawled, url) /\ contains(crawled, host)
    /\ url # host
    /\ Cardinality(crawled.data) >= 3

\* C4: a call of fetcher whose request can be built and that never got
\* status 200 has made one request per pass; it leaves the loop after exactly
\* five of them, and then it is at `c <- nil' with main receiving on its
\* channel and the process still running.
C4_FiveRequestsThenNil ==
    \A f \in fetchTasks :
        (~NewRequestFails(f.url) /\ ~f.gotOK) =>
            /\ f.reqs = f.i
            /\ f.i <= Retries
            /\ (f.status = "send") = (f.i = Retries)
            /\ f.status = "send" =>
                   /\ f.reqs = 5
                   /\ f.doc = <<>>
                   /\ ~exited
                   /\ mainPc \in {"seedRecv", "recv"} /\ fetchChan = f.chan

C4_Witness ==
    \E f \in fetchTasks :
        /\ f.status = "send" /\ ~f.gotOK /\ f.doc = <<>>
        /\ ~NewRequestFails(f.url)
        /\ f.reqs = 5
        /\ f.url # host

C6_EveryPathSends ==
    /\ \A f \in fetchTasks : Live(f)
    /\ mainPc \in {"seedRecv", "recv"} =>
           \E f \in fetchTasks : f.chan = fetchChan /\ Live(f)

InDomain(u) ==
    /\ HasPrefix(u, host)
    /\ ~HasPrefix(u, "#")
    /\ ~HasPrefix(u, "javascript:")
    /\ ~HasPrefix(u, "mailto:")

\* C7: every URL parser enqueues or is about to enqueue, every URL in the
\* queue, and every URL main dequeues and fetches starts with host, and so
\* with none of "#", "javascript:", "mailto:".
C7_DomainContainment ==
    /\ \A i \in DOMAIN queue.elements : InDomain(queue.elements[i])
    /\ \A t \in parsers : t.phase = "enqueue" => InDomain(t.href)
    /\ \A f \in fetchTasks : InDomain(f.url)
    /\ \A u \in DOMAIN fetchStarts : InDomain(u)
    /\ mainPc \in {"add", "go", "recv", "dispatch"} => InDomain(url)

C7_Witness ==
    /\ \E t \in parsers :
           /\ ~t.sync /\ t.idx > 4
           /\ t.doc.links[4] = "http://other.test/z"
    /\ TrimSuffix(host, "/") \o "/a" \in DOMAIN fetchStarts
    /\ \E i \in DOMAIN queue.elements : queue.elements[i] = host \o "b"

\* C8: no URL in the queue, and none about to be enqueued, has an entry of
\* disabledLinks as a substring (isAllowed holds of it); with the list
\* {/private}, isAllowed is false of https://site/private/x and true of
\* https://site/public/x; after robotsTxtFetcher no step changes the list.
C8_RobotsRespected ==
    /\ [](/\ \A i \in DOMAIN queue.elements :
                 /\ isAllowed(queue.elements[i])
                 /\ \A j \in DOMAIN disabledLinks :
                        ~StrContains(queue.elements[i], disabledLinks[j])
          /\ \A t \in parsers :
                 t.phase = "enqueue" =>
                     \A j \in DOMAIN disabledLinks :
                         ~StrContains(t.href, disabledLinks[j])
          /\ disabledLinks = <<"/private">> =>
                 /\ ~isAllowed("https://site/private/x")
                 /\ isAllowed("https://site/public/x"))
    /\ [][mainPc # "robots" => disabledLinks' = disabledLinks]_vars

C8_Witness ==
    /\ disabledLinks = <<"/private">>
    /\ \E t \in parsers :
           /\ t.idx > 2 /\ t.doc.links[2] = "/private/x"
    /\ queue.elements # <<>>

HomeLinks == <<"/a", "#top", "mailto:x@y.com", "http://other.test/z">>

\* The call of parser on the seed's page is past every anchor of that page.
SeedPageExtracted(t) ==
    /\ t.sync
    /\ t.doc.links = HomeLinks
    /\ t.idx > Len(HomeLinks)

\* C9: with host https://example.test/, nothing disallowed and only the seed
\* visited, once parser is through the anchors /a, #top, mailto:x@y.com and
\* http://other.test/z the queue holds https://example.test/a and nothing
\* else.
C9_EndToEnd ==
    \A t \in parsers :
        (/\ host = "https://example.test/"
         /\ disabledLinks = <<>>
         /\ crawled.data = {hashUrl("https://example.test/")}
         /\ SeedPageExtracted(t)) =>
            /\ queue.elements = <<"https://example.test/a">>
            /\ size(queue) = 1

C9_Witness ==
    \E t \in parsers :
        /\ host = "https://example.test/"
        /\ disabledLinks = <<>>
        /\ crawled.data = {hashUrl(host)}
        /\ SeedPageExtracted(t)
        /\ t.phase = "return"

\* C10: under fair scheduling every crawl comes to its end: the parser
\* goroutines joined, the stats goroutine stopped, the final report made.
C10_Terminates ==
    <>(/\ mainPc = "done"
       /\ parsers = {} /\ wg = 0
       /\ samplerPc = "stopped"
       /\ report # <<>>)

\* main has left the crawl loop: it is at wg.Wait() or past it.
Completed == mainPc \in {"wait", "stop", "report", "done"}

\* C11: once main has left the loop the visited count is at most the ceiling,
\* and so exceeds it by no more than the parser goroutines the last pass of
\* the loop dispatched (none or one): add runs only in the loop, right after
\* the loop's condition saw the count below the ceiling.
C11_CeilingSlack ==
    /\ crawledSize(crawled) <= Ceiling
    /\ Completed =>
           crawledSize(crawled)
               <= Ceiling + Cardinality({t \in parsers : t.id = fetchChan /\ ~t.sync})
    /\ report # <<>> => report[1].crawledSize <= Ceiling

C11_Witness ==
    /\ mainPc = "wait"
    /\ crawledSize(crawled) = Ceiling
    /\ size(queue) > 0
    /\ \E t \in parsers : t.id = fetchChan /\ ~t.sync

\* The parser goroutines that have been dispatched and have not returned.
Dispatched == {t \in parsers : ~t.sync}

\* C12: the WaitGroup counts the dispatched parser goroutines that have not
\* returned; once main is past wg.Wait(), and so when the report is made, no
\* call of parser is running or waiting to run; and a call of parser ends
\* only by returning, past every anchor of its page and past writeToFile.
C12_AllJoinedBeforeReport ==
    /\ [](/\ wg = Cardinality(Dispatched)
          /\ mainPc \in {"stop", "report", "done"} => parsers = {} /\ wg = 0
          /\ report # <<>> => parsers = {} /\ wg = 0)
    /\ [][\A t \in parsers :
              (\A s \in parsers' : s.id # t.id) =>
                  t.phase = "return" /\ t.idx > Len(t.doc.links)]_vars

C12_Witness ==
    /\ mainPc = "done" /\ report # <<>>
    /\ parsers = {} /\ wg = 0
    /\ fetchChan >= 2
    /\ Len(resultFile) >= 3
    /\ queue.totalQueued >= 3

\* C13: when the final report is made, after the parser goroutines are
\* joined, the queue is empty or the visited count has reached the ceiling.
C13_DrainedAtReport ==
    (mainPc \in {"report", "done"} /\ parsers = {}) =>
        (size(queue) = 0 \/ crawledSize(crawled) >= Ceiling)

\* The record writeToFile appends for the call t of parser.
RecordOf(t) == [title |-> t.doc.title, url |-> t.url]

\* The step takes the call t of parser past writeToFile.
PastWrite(t) ==
    /\ t.phase = "links"
    /\ \E s \in parsers' : s.id = t.id /\ s.phase = "return"

\* The step ends the call f of fetcher: f has sent its result to main.
Sent(f) == f \in fetchTasks /\ \A g \in fetchTasks' : g.chan # f.chan

\* What C14 says of a fetch and the call of parser made for its document,
\* apart from the number of records: a result of nil starts no call of parser
\* and appends nothing; a document goes, with the URL it was fetched from, to
\* one new call of parser (at once for the seed, through main's content and
\* url at main.go:252-256 otherwise); no call of parser starts in any other
\* way, none changes its document or URL, and none passes writeToFile twice.
FetchToParser ==
    /\ \A f \in fetchTasks :
           Sent(f) =>
               IF f.doc = <<>>
               THEN /\ parsers' = parsers /\ resultFile' = resultFile
                    /\ mainPc' \notin {"seedParse", "dispatch"}
               ELSE IF mainPc = "seedRecv"
               THEN /\ parsers' = parsers \cup {ParserTask(0, f.doc[1], f.url, TRUE)}
                    /\ parsers = {}
               ELSE /\ mainPc' = "dispatch" /\ content' = f.doc /\ url' = f.url
                    /\ parsers' = parsers
    /\ (mainPc = "dispatch" /\ mainPc' # "dispatch") =>
           /\ parsers' = parsers \cup {ParserTask(fetchChan, content[1], url, FALSE)}
           /\ \A t \in parsers : t.id # fetchChan
    /\ \A s \in parsers' :
           (\A t \in parsers : t.id # s.id) =>
               \/ mainPc = "dispatch" /\ mainPc' # "dispatch"
               \/ \E f \in fetchTasks : Sent(f) /\ f.doc # <<>>
    /\ \A t \in parsers : \A s \in parsers' :
           s.id = t.id =>
               /\ s.doc = t.doc /\ s.url = t.url
               /\ t.phase = "return" => s.phase = "return"

\* C14, as stated: a call of parser is made for each document fetched and for
\* nothing else, and passing writeToFile it appends exactly one record, with
\* the title of its document and the URL that document was fetched from;
\* result.txt changes in no other way.
C14_OneRecordPerFetch ==
    /\ [][FetchToParser]_vars
    /\ [][\A t \in parsers :
              PastWrite(t) => resultFile' = Append(resultFile, RecordOf(t))]_vars
    /\ [][resultFile' # resultFile => \E t \in parsers : PastWrite(t)]_vars

\* C14, amended: as above, but passing writeToFile the call appends that one
\* record or, when the file cannot be opened or written, nothing.
C14_AtMostOneRecordPerFetch ==
    /\ [][FetchToParser]_vars
    /\ [][\A t \in parsers :
              PastWrite(t) =>
                  \/ resultFile' = Append(resultFile, RecordOf(t))
                  \/ resultFile' = resultFile]_vars
    /\ [][resultFile' # resultFile => \E t \in parsers : PastWrite(t)]_vars
    /\ [](\A s, t \in parsers : s.id = t.id => s = t)

C14_Witness ==
    /\ Len(resultFile) = 2
    /\ resultFile[1].url = host
    /\ resultFile[2].url # host
    /\ resultFile[2].title # resultFile[1].title
    /\ \E t \in parsers :
           /\ t.phase = "return" /\ ~t.sync
           /\ \A i \in DOMAIN resultFile : resultFile[i] # RecordOf(t)
    /\ fetchChan = 2

\* C15: whenever main is at queue.dequeue() the queue holds an element,
\* whatever the parser goroutines have done since size() > 0 was seen: only
\* main's dequeue takes an element away, every other step leaves the
\* elements in place or appends to them.
C15_DequeueNeverOnEmpty ==
    /\ [](mainPc = "dequeue" => size(queue) > 0 /\ Len(queue.elements) > 0)
    /\ [][\/ IsPrefixOf(queue.elements, queue'.elements)
          \/ /\ mainPc = "dequeue" /\ mainPc' = "add"
             /\ queue.elements # <<>>
             /\ queue'.elements = Tail(queue.elements)]_vars

C15_Witness ==
    /\ mainPc = "dequeue"
    /\ size(queue) = 1
    /\ \E t \in parsers : ~t.sync /\ t.phase = "enqueue" /\ t.idx > 1

\* C16: at most one call of fetcher exists at any time, however many parser
\* goroutines run: when main is about to start a fetch none exists, and one
\* exists only while main waits for its result (or after log.Fatal, which
\* starts no other).
C16_OneFetchInFlight ==
    /\ Cardinality(fetchTasks) <= 1
    /\ mainPc \in {"seedGo", "go"} => fetchTasks = {}
    /\ \A f \in fetchTasks :
           /\ f.chan = fetchChan
           /\ mainPc \in {"seedRecv", "recv"}

C16_Witness ==
    /\ mainPc = "recv"
    /\ fetchChan = 2
    /\ \E f \in fetchTasks : f.status = "run" /\ f.i = 1
    /\ \E t \in parsers : ~t.sync /\ t.phase = "enqueue"

\* C17: the seed and every dequeued URL is in the CrawledSet when main starts
\* its fetch and while the fetch runs; and the CrawledSet changes only in
\* main's two calls of add, for the seed before its fetch and for the URL
\* just dequeued, in a step that neither enqueues nor belongs to a parser.
C17_VisitedBeforeFetch ==
    /\ [](/\ mainPc = "seedGo" => contains(crawled, host)
          /\ mainPc = "go" => contains(crawled, url)
          /\ \A f \in fetchTasks : contains(crawled, f.url)
          /\ \A u \in DOMAIN fetchStarts : contains(crawled, u))
    /\ [][crawled' # crawled =>
              /\ \/ /\ mainPc = "seedAdd" /\ mainPc' = "seedGo"
                    /\ crawled'.data = crawled.data \cup {hashUrl(host)}
                 \/ /\ mainPc = "add" /\ mainPc' = "go"
                    /\ crawled'.data = crawled.data \cup {hashUrl(url)}
              /\ queue' = queue /\ parsers' = parsers]_vars

C17_Witness ==
    /\ mainPc = "recv"
    /\ \E f \in fetchTasks : f.url = url /\ f.url # host /\ f.i = 0
    /\ contains(crawled, url)
    /\ \E i \in DOMAIN queue.elements : ~contains(crawled, queue.elements[i])
    /\ \E t \in parsers : ~t.sync

\* The calls of dequeue main has made: one per channel of the loop, and one
\* more when main is between dequeue and `go fetcher'.
DequeueCalls == fetchChan + (IF mainPc \in {"add", "go"} THEN 1 ELSE 0)

\* C18: in every state of the crawl, parser goroutines enqueueing alongside
\* main, number is the length of the slice and is not negative, and
\* totalQueued is number plus the dequeue calls made; and every step that
\* touches the queue is one enqueue call (one element appended, totalQueued
\* and number up by one) or one dequeue call (the head removed, number down
\* by one, totalQueued kept), so totalQueued counts the enqueue calls.
C18_CountersConsistent ==
    /\ [](/\ size(queue) = Len(queue.elements)
          /\ size(queue) >= 0
          /\ queue.totalQueued = size(queue) + DequeueCalls)
    /\ [][queue' # queue =>
              \/ /\ \E u \in KnownUrls : queue'.elements = Append(queue.elements, u)
                 /\ queue'.totalQueued = queue.totalQueued + 1
                 /\ queue'.number = queue.number + 1
              \/ /\ queue.elements # <<>>
                 /\ queue'.elements = Tail(queue.elements)
                 /\ queue'.totalQueued = queue.totalQueued
                 /\ queue'.number = queue.number - 1]_vars

C18_Witness ==
    /\ queue.totalQueued = 3
    /\ size(queue) = 1
    /\ DequeueCalls = 2
    /\ \E t \in parsers : ~t.sync /\ t.phase = "enqueue"
    /\ mainPc = "recv"

\* The calls of crawled.add main has made: the seed's, and one per dequeue.
AddCalls ==
    (IF mainPc \in {"robots", "seedAdd"} THEN 0 ELSE 1)
        + fetchChan + (IF mainPc = "go" THEN 1 ELSE 0)

\* C19: size() of the CrawledSet is the number of add calls made, which the
\* number of fingerprints stored can fall short of; adding a URL a second
\* time raises size by one again (by two in all) and leaves the fingerprints
\* as the first add left them.
C19_AddCountsCalls ==
    /\ crawledSize(crawled) = AddCalls
    /\ Cardinality(crawled.data) <= crawledSize(crawled)
    /\ \A u \in DOMAIN fetchStarts \cup {host} :
           LET once  == add(crawled, u)
               twice == add(once, u)
           IN  /\ crawledSize(once) = crawledSize(crawled) + 1
               /\ crawledSize(twice) = crawledSize(crawled) + 2
               /\ twice.data = once.data
               /\ contains(once, u) /\ contains(twice, u)

\* The second add of one URL has happened in the crawl, and the loop has
\* stopped at the ceiling with fewer fingerprints than the ceiling.
C19_Witness ==
    /\ mainPc = "wait"
    /\ \E u \in DOMAIN fetchStarts : fetchStarts[u] = 2
    /\ crawledSize(crawled) = Ceiling
    /\ Cardinality(crawled.data) = Ceiling - 1
    /\ size(queue) > 0

\* The step is a pass of the loop of the call f of fetcher that ends without
\* status 200.
FailedPass(f) ==
    /\ f.status = "run"
    /\ \E g \in fetchTasks' : g.chan = f.chan /\ g.i = f.i + 1 /\ ~g.gotOK

\* C20: the process is ended only by log.Fatal in a call of fetcher that got
\* status 200 and could not parse the body; main is then waiting for that
\* call and nothing runs any more.  No other failure ends it or takes main
\* off its course: a failed pass of fetcher, a result of nil (main goes on at
\* the top of the loop, or to the loop after the seed, with the queue and the
\* CrawledSet as they were: the URL is not enqueued again), robots.txt not
\* loaded (main goes on to the seed), a write to result.txt that fails (the
\* call of parser goes on to return).
C20_OnlyParseFailureStops ==
    /\ [](exited =>
              /\ \E f \in fetchTasks :
                     f.status = "fatal" /\ f.gotOK /\ f.doc = <<>>
                             /\ f.chan = fetchChan
              /\ mainPc \in {"seedRecv", "recv"}
              /\ report = <<>>)
    /\ [][exited' # exited =>
              /\ ~exited /\ exited'
              /\ \E f \in fetchTasks :
                     /\ f.status = "run"
                     /\ \E g \in fetchTasks' :
                            g.chan = f.chan /\ g.status = "fatal" /\ g.gotOK]_vars
    /\ [][~exited]_vars
    /\ [][\A f \in fetchTasks : FailedPass(f) => ~exited' /\ mainPc' = mainPc]_vars
    /\ [][\A f \in fetchTasks :
              (Sent(f) /\ f.doc = <<>>) =>
                  /\ ~exited'
                  /\ queue' = queue /\ crawled' = crawled
                  /\ mainPc' = IF mainPc = "seedRecv" THEN "startStats"
                                                      ELSE "loop"]_vars
    /\ [][(mainPc = "robots" /\ mainPc' # "robots") =>
              mainPc' = "seedAdd" /\ ~exited']_vars
    /\ [][\A t \in parsers :
              (PastWrite(t) /\ resultFile' = resultFile) =>
                  ~exited' /\ mainPc' = mainPc]_vars

\* A crawl has come to its report although robots.txt gave no list, the
\* write of the seed's record failed, and the fetch of a dequeued URL, one no
\* request can be built for, ended with nil.
C20_Witness ==
    /\ mainPc = "done" /\ ~exited /\ report # <<>>
    /\ disabledLinks = <<>>
    /\ resultFile = <<>>
    /\ queue.totalQueued >= 1
    /\ \E u \in DOMAIN fetchStarts : u # host /\ NewRequestFails(u)
    /\ fetchTasks = {}

====
